---- MODULE Spec2Model ----
(***************************************************************************)
(* A model of the p9fs 9P2000.L client: the wire catalog of                *)
(* lib/src/proto.rs, the request engine of p9kp/src/lib.rs (read_msg and   *)
(* the UnixClient / ChardevClient transports) and the pull driver of       *)
(* p9kp/src/bin/p9kp.rs (run, copydir, copyfile).                          *)
(*                                                                         *)
(* Fixed-width integers.  A u32 is held as its 32-bit pattern; a pattern   *)
(* whose top bit is set reads as a negative integer (two's complement), so *)
(* !0u32 is -1 and a wrapping 8 - 11 is -3.  Byte extraction uses floored  *)
(* division, which yields the little-endian bytes of the pattern, and      *)
(* unsigned order is ULt32.  A u64 is held the same way.                   *)
(***************************************************************************)
EXTENDS Integers, Sequences, FiniteSets, TLC

\* TLC keeps the fields of a record in the order of their first occurrence
\* in the module; every record below lists its fields in this one order.
FieldOrder ==
    [k |-> 0, size |-> 0, typ |-> 0, tag |-> 0, version |-> 0, path |-> 0,
     qid |-> 0, offset |-> 0, name |-> 0, ecode |-> 0, msize |-> 0,
     fid |-> 0, request_mask |-> 0, valid |-> 0, mode |-> 0, uid |-> 0,
     gid |-> 0, rest |-> 0, fstype |-> 0, bsize |-> 0, namelen |-> 0,
     afid |-> 0, uname |-> 0, aname |-> 0, n_uname |-> 0, newfid |-> 0,
     wname |-> 0, flags |-> 0, iounit |-> 0, count |-> 0, data |-> 0,
     ok |-> 0, val |-> 0, next |-> 0, msg |-> 0, expected |-> 0, got |-> 0]

VARIABLES
    built,      \* codec: the message last built by a constructor
    frame,      \* codec: its serialization, to_bytes_le(built)
    engR,       \* read_msg: the response type R the caller expects
    engData,    \* read_msg: the bytes handed to it
    engRes,     \* read_msg: its result
    engRead,    \* the bytes the transport received for the reply
    uxConn,     \* UnixClient.connection: 0 for None, else the stream's id
    uxPhase,    \* UnixClient::send: "idle", "write", "read" or "done"
    uxT,        \* UnixClient::send: the request t
    uxR,        \* UnixClient::send: the expected response type R
    uxWrote,    \* the n of try_write's Ok(n) in the current send
    uxMsg,      \* UnixClient::send: the local msg
    uxRes,      \* the value send returned
    uxSends,    \* number of sends begun
    chC2S,      \* socket: bytes written by the client, not yet consumed
    chS2C,      \* socket: bytes delivered to the client, not yet read
    chEof,      \* socket: the server has closed its end
    chReady,    \* tokio read readiness of the stream
    srvTodo,    \* server: bytes of its reply not yet delivered
    srvReply,   \* server: the reply frame it produced for the current send
    uxLazy,     \* number of connects made from within send
    uxCalls,    \* number of connect() calls made by the user of the client
    pc,             \* pull driver: the point run/copydir/copyfile is at
    stack,          \* pull driver: the copydir activations, innermost last
    nextfid,        \* run: nextfid
    runOffset,      \* run: offset
    max_msg_size,   \* run: max_msg_size
    cfNewfid,       \* copyfile: newfid
    cfFp,           \* copyfile: fp, as a sequence of path components
    cfOffset,       \* copyfile: offset
    req,            \* Client::send in progress: the request t, or NoMsg
    expR,           \* Client::send in progress: the response type R
    reply,          \* the reply frame that waits to be read
    res,            \* the value the last send returned
    outstanding,    \* requests written whose send has not returned
    devReads,       \* ChardevClient::send: device reads issued by this send
    devCap,         \* ChardevClient::send: buf.len() of its last read
    log,            \* requests written and results returned, in order
    localDirs,      \* local filesystem: the directories below "."
    localFiles,     \* local filesystem: path -> content
    remFids,        \* remote server: fid -> path
    remFaults,      \* remote server: replies that were not the proper one
    chunk_size,     \* Opts.chunk_size
    remTree,        \* remote server: the exported tree
    remVersion,     \* remote server: the version string of its Rversion
    remBatch,       \* remote server: most entries / bytes in one reply
    remDots,        \* remote server: listings contain "." and ".."
    remObeys,       \* remote server: honours the count of Treaddir
    remMsize,       \* remote server: the largest msize it accepts
    remStride       \* remote server: step of its directory cookies

codecVars == <<built, frame>>
engVars == <<engR, engData, engRes, engRead>>
uxVars ==
    <<uxConn, uxPhase, uxT, uxR, uxWrote, uxMsg, uxRes, uxSends, chC2S,
      chS2C, chEof, chReady, srvTodo, srvReply, uxLazy, uxCalls>>
drvVars ==
    <<pc, stack, nextfid, runOffset, max_msg_size, cfNewfid, cfFp, cfOffset>>
wireVars == <<req, expR, reply, res, outstanding, log, devReads, devCap>>
fsVars == <<localDirs, localFiles>>
remVars == <<remFids, remFaults>>
cfgVars ==
    <<chunk_size, remTree, remVersion, remBatch, remDots, remObeys, remMsize,
      remStride>>
pullVars == <<drvVars, wireVars, fsVars, remVars, cfgVars>>
vars == <<codecVars, engVars, uxVars, pullVars>>

\* ------------------------------------------------------------------------
\* Bounds of the model
\* ------------------------------------------------------------------------
MaxNameLen == 2
MaxVecLen == 2

\* ------------------------------------------------------------------------
\* Primitive codec (ispf, little-endian, no padding)
\* ------------------------------------------------------------------------
le_u8(v) == <<v % 256>>

le_u16(v) == <<v % 256, (v \div 256) % 256>>

le_u32(v) ==
    <<v % 256, (v \div 256) % 256, (v \div 65536) % 256,
      (v \div 16777216) % 256>>

le_u64(v) ==
    le_u32(v) \o (IF v < 0 THEN <<255, 255, 255, 255>> ELSE <<0, 0, 0, 0>>)

\* unsigned comparison of two 32-bit patterns
ULt32(a, b) ==
    IF (a < 0) = (b < 0) THEN a < b ELSE b < 0

RECURSIVE Concat(_)
Concat(ss) == IF ss = <<>> THEN <<>> ELSE Head(ss) \o Concat(Tail(ss))

str_lv16(s) == le_u16(Len(s)) \o s

vec_lv16(xs, Enc(_)) ==
    le_u16(Len(xs)) \o Concat([i \in 1..Len(xs) |-> Enc(xs[i])])

vec_lv32(xs, Enc(_)) ==
    le_u32(Len(xs)) \o Concat([i \in 1..Len(xs) |-> Enc(xs[i])])

vec_lv32b(xs, Enc(_)) ==
    LET body == Concat([i \in 1..Len(xs) |-> Enc(xs[i])])
    IN  le_u32(Len(body)) \o body

\* ------------------------------------------------------------------------
\* Message type opcodes (enum MessageType) and other constants
\* ------------------------------------------------------------------------
MT_Unknown == 0
MT_Rlerror == 7
MT_Tstatfs == 8
MT_Rstatfs == 9
MT_Tlopen == 12
MT_Rlopen == 13
MT_Tgetattr == 24
MT_Rgetattr == 25
MT_Treaddir == 40
MT_Rreaddir == 41
MT_Tversion == 100
MT_Rversion == 101
MT_Tattach == 104
MT_Rattach == 105
MT_Twalk == 110
MT_Rwalk == 111
MT_Tread == 116
MT_Rread == 117
MT_Twrite == 118
MT_Rwrite == 119
MT_Tclunk == 120
MT_Rclunk == 121

\* every discriminant of enum MessageType
MessageType ==
    {0, 6, 7, 8, 9, 12, 13, 14, 15, 16, 17, 18, 19, 20, 21, 22, 23, 24, 25,
     30, 31, 40, 41, 50, 51, 52, 53, 54, 55, 70, 71, 72, 73, 74, 75, 76, 77,
     100, 101, 102, 103, 104, 105, 108, 109, 110, 111, 116, 117, 118, 119,
     120, 121, 122, 123}

QT_Dir == 128
QT_Append == 64
QT_Excl == 32
QT_Mount == 16
QT_Auth == 8
QT_Tmp == 4
QT_Link == 2
QT_File == 0

\* every discriminant of enum QidType
QidType == {128, 64, 32, 16, 8, 4, 2, 0}

NO_FID == -1
NO_AFID == -1
NO_NUNAME == -1

RdOnly == 0

DT_DIR == 4

\* P9Version::to_string, as byte strings
V2000 == <<57, 80, 50, 48, 48, 48>>
V2000U == V2000 \o <<46, 85>>
V2000L == V2000 \o <<46, 76>>
V2000P4 == V2000 \o <<46, 80, 52>>

P9Version == {"V2000", "V2000U", "V2000L", "V2000P4"}

P9Version_to_string(v) ==
    CASE v = "V2000" -> V2000
      [] v = "V2000U" -> V2000U
      [] v = "V2000L" -> V2000L
      [] v = "V2000P4" -> V2000P4

\* P9Version::from_str; "None" for an unrecognized token
P9Version_from_str(s) ==
    CASE s = V2000 -> "V2000"
      [] s = V2000U -> "V2000U"
      [] s = V2000L -> "V2000L"
      [] s = V2000P4 -> "V2000P4"
      [] OTHER -> "None"

\* ------------------------------------------------------------------------
\* Message constructors: each computes `size` from its arguments
\* ------------------------------------------------------------------------
Qid(typ, version, path) == [typ |-> typ, version |-> version, path |-> path]

Dirent(qid, offset, typ, name) ==
    [typ |-> typ, qid |-> qid, offset |-> offset, name |-> name]

Dirent_wire_size(d) == 1 + 4 + 8 + 8 + 1 + 2 + Len(d.name)

RECURSIVE SumSeq(_)
SumSeq(ns) == IF ns = <<>> THEN 0 ELSE Head(ns) + SumSeq(Tail(ns))

SumOver(xs, F(_)) == SumSeq([i \in 1..Len(xs) |-> F(xs[i])])

Rlerror_new(ecode) ==
    [k |-> "Rlerror", size |-> 4 + 1 + 2 + 4, typ |-> MT_Rlerror, tag |-> 0,
     ecode |-> ecode]

Version_new(v) ==
    LET vs == P9Version_to_string(v)
    IN  [k |-> "Version", size |-> 4 + 1 + 2 + 4 + 2 + Len(vs),
         typ |-> MT_Tversion, tag |-> 0, version |-> vs, msize |-> 32768]

Tclunk_new(fid) ==
    [k |-> "Tclunk", size |-> 4 + 1 + 2 + 4, typ |-> MT_Tclunk, tag |-> 0,
     fid |-> fid]

Rclunk_new ==
    [k |-> "Rclunk", size |-> 4 + 1 + 2, typ |-> MT_Rclunk, tag |-> 0]

Tgetattr_new(fid, request_mask) ==
    [k |-> "Tgetattr", size |-> 4 + 1 + 2 + 4 + 8, typ |-> MT_Tgetattr,
     tag |-> 0, fid |-> fid, request_mask |-> request_mask]

\* w holds the 18 scalar fields that follow qid, in declaration order: mode
\* uid gid (u32), then nlink rdev attrsize blksize blocks atime_sec
\* atime_nsec mtime_sec mtime_nsec ctime_sec ctime_nsec btime_sec btime_nsec
\* gen data_version (u64)
Rgetattr_new(valid, qid, w) ==
    [k |-> "Rgetattr",
     size |-> 4 + 1 + 2 + 8 + 1 + 4 + 8 + 4 + 4 + 4 + 8 + 8 + 8 + 8 + 8
              + 8 + 8 + 8 + 8 + 8 + 8 + 8 + 8 + 8 + 8,
     typ |-> MT_Rgetattr, tag |-> 0, qid |-> qid, valid |-> valid,
     mode |-> w[1], uid |-> w[2], gid |-> w[3], rest |-> SubSeq(w, 4, 18)]

Tstatfs_new(fid) ==
    [k |-> "Tstatfs", size |-> 4 + 1 + 2 + 4, typ |-> MT_Tstatfs, tag |-> 0,
     fid |-> fid]

\* w holds blocks bfree bavail files ffree fsid
Rstatfs_new(fstype, bsize, w, namelen) ==
    [k |-> "Rstatfs",
     size |-> 4 + 1 + 2 + 4 + 4 + 8 + 8 + 8 + 8 + 8 + 8 + 4,
     typ |-> MT_Rstatfs, tag |-> 0, rest |-> w, fstype |-> fstype,
     bsize |-> bsize, namelen |-> namelen]

Tattach_new(fid, afid, uname, aname, n_uname) ==
    [k |-> "Tattach",
     size |-> 4 + 1 + 2 + 4 + 4 + 2 + Len(uname) + 2 + Len(aname) + 4,
     typ |-> MT_Tattach, tag |-> 0, fid |-> fid, afid |-> afid,
     uname |-> uname, aname |-> aname, n_uname |-> n_uname]

Rattach_new(qid) ==
    [k |-> "Rattach", size |-> 4 + 1 + 2 + 1 + 4 + 8, typ |-> MT_Rattach,
     tag |-> 0, qid |-> qid]

Twalk_wname_sz(x) == 2 + Len(x)

Twalk_new_NoLenPrefix(fid, newfid, wname) ==
    LET value_len(x) == Len(x)
        wname_sz == SumOver(wname, value_len)
    IN  [k |-> "Twalk", size |-> 4 + 1 + 2 + 4 + 4 + 2 + wname_sz,
         typ |-> MT_Twalk, tag |-> 0, fid |-> fid, newfid |-> newfid,
         wname |-> wname]

Twalk_new(fid, newfid, wname) ==
    LET wname_sz == SumOver(wname, Twalk_wname_sz)
    IN  [k |-> "Twalk", size |-> 4 + 1 + 2 + 4 + 4 + 2 + wname_sz,
         typ |-> MT_Twalk, tag |-> 0, fid |-> fid, newfid |-> newfid,
         wname |-> wname]

Rwalk_new(wname) ==
    LET wname_sz == Len(wname) * (1 + 4 + 8)
    IN  [k |-> "Rwalk", size |-> 4 + 1 + 2 + 2 + wname_sz,
         typ |-> MT_Rwalk, tag |-> 0, wname |-> wname]

Tlopen_new(fid, flags) ==
    [k |-> "Tlopen", size |-> 4 + 1 + 2 + 4 + 4, typ |-> MT_Tlopen,
     tag |-> 0, fid |-> fid, flags |-> flags]

Rlopen_new(qid, iounit) ==
    [k |-> "Rlopen", size |-> 4 + 1 + 2 + 1 + 4 + 8 + 4, typ |-> MT_Rlopen,
     tag |-> 0, qid |-> qid, iounit |-> iounit]

Treaddir_new(fid, offset, count) ==
    [k |-> "Treaddir", size |-> 4 + 1 + 2 + 4 + 8 + 4, typ |-> MT_Treaddir,
     tag |-> 0, offset |-> offset, fid |-> fid, count |-> count]

Rreaddir_new(data) ==
    LET data_sz == SumOver(data, Dirent_wire_size)
    IN  [k |-> "Rreaddir", size |-> 4 + 1 + 2 + 4 + data_sz,
         typ |-> MT_Rreaddir, tag |-> 0, data |-> data]

\* a constructor that numbers its requests
Tread_new_Tagged(fid, offset, count) ==
    [k |-> "Tread", size |-> 4 + 1 + 2 + 4 + 8 + 4, typ |-> MT_Tread,
     tag |-> 1, offset |-> offset, fid |-> fid, count |-> count]

Tread_new(fid, offset, count) ==
    [k |-> "Tread", size |-> 4 + 1 + 2 + 4 + 8 + 4, typ |-> MT_Tread,
     tag |-> 0, offset |-> offset, fid |-> fid, count |-> count]

Rread_new(data) ==
    [k |-> "Rread", size |-> 4 + 1 + 2 + 4 + Len(data), typ |-> MT_Rread,
     tag |-> 0, data |-> data]

Twrite_new(data, fid, offset) ==
    [k |-> "Twrite", size |-> 4 + 1 + 2 + 4 + 8 + 4 + Len(data),
     typ |-> MT_Twrite, tag |-> 0, offset |-> offset, fid |-> fid,
     data |-> data]

Rwrite_new(count) ==
    [k |-> "Rwrite", size |-> 4 + 1 + 2 + 4, typ |-> MT_Rwrite, tag |-> 0,
     count |-> count]

\* ------------------------------------------------------------------------
\* Serialization: the serde field order of each struct
\* ------------------------------------------------------------------------
enc_Qid(q) == le_u8(q.typ) \o le_u32(q.version) \o le_u64(q.path)

enc_Dirent(d) ==
    enc_Qid(d.qid) \o le_u64(d.offset) \o le_u8(d.typ) \o str_lv16(d.name)

enc_Wname(w) == str_lv16(w)

enc_u64s(ws) == Concat([i \in 1..Len(ws) |-> le_u64(ws[i])])

enc_Header(m) == le_u32(m.size) \o le_u8(m.typ) \o le_u16(m.tag)

to_bytes_le(m) ==
    enc_Header(m) \o
    CASE m.k = "Partial" -> <<>>
      [] m.k = "Rlerror" -> le_u32(m.ecode)
      [] m.k = "Version" -> le_u32(m.msize) \o str_lv16(m.version)
      [] m.k = "Tclunk" -> le_u32(m.fid)
      [] m.k = "Rclunk" -> <<>>
      [] m.k = "Tgetattr" -> le_u32(m.fid) \o le_u64(m.request_mask)
      [] m.k = "Rgetattr" ->
            le_u64(m.valid) \o enc_Qid(m.qid) \o le_u32(m.mode)
            \o le_u32(m.uid) \o le_u32(m.gid) \o enc_u64s(m.rest)
      [] m.k = "Tstatfs" -> le_u32(m.fid)
      [] m.k = "Rstatfs" ->
            le_u32(m.fstype) \o le_u32(m.bsize) \o enc_u64s(m.rest)
            \o le_u32(m.namelen)
      [] m.k = "Tattach" ->
            le_u32(m.fid) \o le_u32(m.afid) \o str_lv16(m.uname)
            \o str_lv16(m.aname) \o le_u32(m.n_uname)
      [] m.k = "Rattach" -> enc_Qid(m.qid)
      [] m.k = "Twalk" ->
            le_u32(m.fid) \o le_u32(m.newfid) \o vec_lv16(m.wname, enc_Wname)
      [] m.k = "Rwalk" -> vec_lv16(m.wname, enc_Qid)
      [] m.k = "Tlopen" -> le_u32(m.fid) \o le_u32(m.flags)
      [] m.k = "Rlopen" -> enc_Qid(m.qid) \o le_u32(m.iounit)
      [] m.k = "Treaddir" ->
            le_u32(m.fid) \o le_u64(m.offset) \o le_u32(m.count)
      [] m.k = "Rreaddir" -> vec_lv32b(m.data, enc_Dirent)
      [] m.k = "Tread" ->
            le_u32(m.fid) \o le_u64(m.offset) \o le_u32(m.count)
      [] m.k = "Rread" -> vec_lv32(m.data, le_u8)
      [] m.k = "Twrite" ->
            le_u32(m.fid) \o le_u64(m.offset) \o vec_lv32(m.data, le_u8)
      [] m.k = "Rwrite" -> le_u32(m.count)

\* ------------------------------------------------------------------------
\* Deserialization (from_bytes_le): fields are read in declaration order
\* from position 1; input beyond the last field is left unread.  A field
\* that runs past the input, or an enum byte that is no discriminant
\* (Deserialize_repr), is an error.
\* ------------------------------------------------------------------------
rd_u8(d, p) == d[p]

rd_u16(d, p) == d[p] + 256 * d[p + 1]

rd_u32(d, p) ==
    d[p] + 256 * d[p + 1] + 65536 * d[p + 2]
    + 16777216 * (IF d[p + 3] >= 128 THEN d[p + 3] - 256 ELSE d[p + 3])

\* the model's u64 populations fit the low word; the high word is skipped
rd_u64(d, p) == rd_u32(d, p)

DecErr == [ok |-> FALSE]

DecOk(v) == [ok |-> TRUE, val |-> v]

\* a Qid at position p (13 bytes)
dec_Qid(d, p) ==
    IF p + 12 > Len(d) \/ rd_u8(d, p) \notin QidType THEN DecErr
    ELSE DecOk(Qid(rd_u8(d, p), rd_u32(d, p + 1), rd_u64(d, p + 5)))

\* a Dirent at position p; next is the position after it
dec_Dirent(d, p) ==
    IF p + 23 > Len(d) THEN DecErr
    ELSE LET q == dec_Qid(d, p)
             n == rd_u16(d, p + 22)
         IN  IF ~q.ok \/ p + 23 + n > Len(d) THEN DecErr
             ELSE [ok |-> TRUE,
                   val |-> Dirent(q.val, rd_u64(d, p + 13), rd_u8(d, p + 21),
                                  SubSeq(d, p + 24, p + 23 + n)),
                   next |-> p + 24 + n]

\* vec_lv32b: elements are decoded from the slice until it is exhausted
RECURSIVE dec_Dirents(_, _)
dec_Dirents(d, p) ==
    IF p > Len(d) THEN DecOk(<<>>)
    ELSE LET e == dec_Dirent(d, p)
         IN  IF ~e.ok THEN DecErr
             ELSE LET r == dec_Dirents(d, e.next)
                  IN  IF ~r.ok THEN DecErr ELSE DecOk(<<e.val>> \o r.val)

\* vec_lv16 of Qid: n elements from position p
dec_Qids(d, p, n) ==
    IF p + 13 * n - 1 > Len(d) THEN DecErr
    ELSE LET qs == [i \in 1..n |-> dec_Qid(d, p + 13 * (i - 1))]
         IN  IF \E i \in 1..n : ~qs[i].ok THEN DecErr
             ELSE DecOk([i \in 1..n |-> qs[i].val])

\* the payload of struct k, from position 8, as a record without a header
dec_Payload(k, d) ==
    CASE k \in {"Partial", "Rclunk"} -> DecOk(<<>>)
      [] k \in {"Rlerror", "Rwrite", "Tclunk"} ->
            IF Len(d) < 11 THEN DecErr ELSE DecOk(<<rd_u32(d, 8)>>)
      [] k = "Version" ->
            IF Len(d) < 13 \/ Len(d) < 13 + rd_u16(d, 12) THEN DecErr
            ELSE DecOk(<<rd_u32(d, 8),
                         SubSeq(d, 14, 13 + rd_u16(d, 12))>>)
      [] k = "Rattach" ->
            LET q == dec_Qid(d, 8)
            IN  IF ~q.ok THEN DecErr ELSE DecOk(<<q.val>>)
      [] k = "Rwalk" ->
            IF Len(d) < 9 THEN DecErr
            ELSE LET qs == dec_Qids(d, 10, rd_u16(d, 8))
                 IN  IF ~qs.ok THEN DecErr ELSE DecOk(<<qs.val>>)
      [] k = "Rlopen" ->
            LET q == dec_Qid(d, 8)
            IN  IF ~q.ok \/ Len(d) < 24 THEN DecErr
                ELSE DecOk(<<q.val, rd_u32(d, 21)>>)
      [] k = "Rreaddir" ->
            IF Len(d) < 11 THEN DecErr
            ELSE LET n == rd_u32(d, 8)
                 IN  IF n < 0 \/ Len(d) < 11 + n THEN DecErr
                     ELSE LET ds == dec_Dirents(SubSeq(d, 12, 11 + n), 1)
                          IN  IF ~ds.ok THEN DecErr ELSE DecOk(<<ds.val>>)
      [] k = "Rread" ->
            IF Len(d) < 11 THEN DecErr
            ELSE LET n == rd_u32(d, 8)
                 IN  IF n < 0 \/ Len(d) < 11 + n THEN DecErr
                     ELSE DecOk(<<SubSeq(d, 12, 11 + n)>>)
      [] k = "Twrite" ->
            IF Len(d) < 23 THEN DecErr
            ELSE LET n == rd_u32(d, 20)
                 IN  IF n < 0 \/ Len(d) < 23 + n THEN DecErr
                     ELSE DecOk(<<rd_u32(d, 8), rd_u64(d, 12),
                                  SubSeq(d, 24, 23 + n)>>)

\* the struct k from its header fields and the payload fields v
from_fields(k, size, typ, tag, v) ==
    CASE k \in {"Partial", "Rclunk"} ->
           [k |-> k, size |-> size, typ |-> typ, tag |-> tag]
      [] k = "Rlerror" ->
           [k |-> k, size |-> size, typ |-> typ, tag |-> tag,
            ecode |-> v[1]]
      [] k = "Version" ->
           [k |-> k, size |-> size, typ |-> typ, tag |-> tag,
            version |-> v[2], msize |-> v[1]]
      [] k = "Tclunk" ->
           [k |-> k, size |-> size, typ |-> typ, tag |-> tag, fid |-> v[1]]
      [] k = "Rattach" ->
           [k |-> k, size |-> size, typ |-> typ, tag |-> tag, qid |-> v[1]]
      [] k = "Rwalk" ->
           [k |-> k, size |-> size, typ |-> typ, tag |-> tag,
            wname |-> v[1]]
      [] k = "Rlopen" ->
           [k |-> k, size |-> size, typ |-> typ, tag |-> tag, qid |-> v[1],
            iounit |-> v[2]]
      [] k \in {"Rreaddir", "Rread"} ->
           [k |-> k, size |-> size, typ |-> typ, tag |-> tag, data |-> v[1]]
      [] k = "Twrite" ->
           [k |-> k, size |-> size, typ |-> typ, tag |-> tag,
            offset |-> v[2], fid |-> v[1], data |-> v[3]]
      [] k = "Rwrite" ->
           [k |-> k, size |-> size, typ |-> typ, tag |-> tag,
            count |-> v[1]]

\* from_bytes_le::<k>(d): header, then payload
from_bytes_le(k, d) ==
    IF Len(d) < 7 \/ rd_u8(d, 5) \notin MessageType THEN DecErr
    ELSE LET f == dec_Payload(k, d)
         IN  IF ~f.ok THEN DecErr
             ELSE DecOk(from_fields(k, rd_u32(d, 1), rd_u8(d, 5),
                                    rd_u16(d, 6), f.val))

\* ------------------------------------------------------------------------
\* Request engine: read_msg
\* ------------------------------------------------------------------------
\* the structs that implement Message
MessageImpls ==
    {"Partial", "Rlerror", "Version", "Tclunk", "Rclunk", "Rattach", "Rwalk",
     "Rlopen", "Rreaddir", "Rread", "Twrite", "Rwrite"}

\* an impl that answers Unknown for every type
message_type_Unknown(k) == MT_Unknown

message_type(k) ==
    CASE k = "Partial" -> MT_Unknown
      [] k = "Rlerror" -> MT_Rlerror
      [] k = "Version" -> MT_Rversion
      [] k = "Tclunk" -> MT_Tclunk
      [] k = "Rclunk" -> MT_Rclunk
      [] k = "Rattach" -> MT_Rattach
      [] k = "Rwalk" -> MT_Rwalk
      [] k = "Rlopen" -> MT_Rlopen
      [] k = "Rreaddir" -> MT_Rreaddir
      [] k = "Rread" -> MT_Rread
      [] k = "Twrite" -> MT_Twrite
      [] k = "Rwrite" -> MT_Rwrite

instance_type(m) == m.typ

ResOk(r) == [k |-> "Ok", msg |-> r]

ResDecode == [k |-> "DecodeError"]

ServerError(e) == [k |-> "ServerError", ecode |-> e.ecode]

UnexpectedReturnType(expected, got) ==
    [k |-> "UnexpectedReturnType", expected |-> expected, got |-> got]

read_msg_NoRlerror(R, data) ==
    LET p == from_bytes_le("Partial", data)
    IN  IF ~p.ok THEN ResDecode
        ELSE IF instance_type(p.val) # message_type(R)
             THEN UnexpectedReturnType(message_type(R), instance_type(p.val))
             ELSE LET r == from_bytes_le(R, data)
                  IN  IF ~r.ok THEN ResDecode ELSE ResOk(r.val)

read_msg_Swapped(R, data) ==
    LET p == from_bytes_le("Partial", data)
    IN  IF ~p.ok THEN ResDecode
        ELSE IF instance_type(p.val) # message_type(R)
             THEN IF instance_type(p.val) = message_type("Rlerror")
                  THEN LET e == from_bytes_le("Rlerror", data)
                       IN  IF ~e.ok THEN ResDecode ELSE ServerError(e.val)
                  ELSE UnexpectedReturnType(instance_type(p.val),
                                            message_type(R))
             ELSE LET r == from_bytes_le(R, data)
                  IN  IF ~r.ok THEN ResDecode ELSE ResOk(r.val)

read_msg(R, data) ==
    LET p == from_bytes_le("Partial", data)
    IN  IF ~p.ok THEN ResDecode
        ELSE IF instance_type(p.val) # message_type(R)
             THEN IF instance_type(p.val) = message_type("Rlerror")
                  THEN LET e == from_bytes_le("Rlerror", data)
                       IN  IF ~e.ok THEN ResDecode ELSE ServerError(e.val)
                  ELSE UnexpectedReturnType(message_type(R),
                                            instance_type(p.val))
             ELSE LET r == from_bytes_le(R, data)
                  IN  IF ~r.ok THEN ResDecode ELSE ResOk(r.val)

\* ------------------------------------------------------------------------
\* Argument populations
\* ------------------------------------------------------------------------
SeqsUpTo(S, n) == UNION {[1..k -> S] : k \in 0..n}

NameChars == {46, 97}
Names == SeqsUpTo(NameChars, MaxNameLen)
U32Vals == {0, 1, 70000, -1}
U64Vals == {0, 3}
QidVals == {Qid(t, v, 5) : t \in {QT_File, QT_Dir}, v \in {0, 1}}
DirentVals ==
    {Dirent(Qid(t, 0, 5), 1, IF t = QT_Dir THEN DT_DIR ELSE 0, n) :
        t \in {QT_File, QT_Dir}, n \in Names}
ByteVecs == SeqsUpTo({0, 255}, MaxVecLen + 1)

NoMsg == [k |-> "none"]

\* ------------------------------------------------------------------------
\* Specification of the catalog: every constructor, then serialization
\* ------------------------------------------------------------------------
NoRes == [k |-> "none"]

InitCodecVars ==
    /\ built = NoMsg
    /\ frame = <<>>

InitEngVars ==
    /\ engR = "none"
    /\ engData = <<>>
    /\ engRes = NoRes
    /\ engRead = <<>>

InitUxVars ==
    /\ uxConn = 0
    /\ uxPhase = "idle"
    /\ uxT = NoMsg
    /\ uxR = "none"
    /\ uxWrote = 0
    /\ uxMsg = <<>>
    /\ uxRes = NoRes
    /\ uxSends = 0
    /\ chC2S = <<>>
    /\ chS2C = <<>>
    /\ chEof = FALSE
    /\ chReady = FALSE
    /\ srvTodo = <<>>
    /\ srvReply = <<>>
    /\ uxLazy = 0
    /\ uxCalls = 0

InitPullState ==
    /\ pc = "start"
    /\ stack = <<>>
    /\ nextfid = 0
    /\ runOffset = 0
    /\ max_msg_size = 0
    /\ cfNewfid = 0
    /\ cfFp = <<>>
    /\ cfOffset = 0
    /\ req = NoMsg
    /\ expR = "none"
    /\ reply = <<>>
    /\ res = NoRes
    /\ outstanding = 0
    /\ log = <<>>
    /\ devReads = 0
    /\ devCap = 0
    /\ localDirs = {}
    /\ localFiles = <<>>
    /\ remFids = <<>>
    /\ remFaults = 0

InitPullVars ==
    /\ InitPullState
    /\ chunk_size = 65536
    /\ remTree = <<>>
    /\ remVersion = V2000L
    /\ remBatch = 1
    /\ remDots = FALSE
    /\ remObeys = TRUE
    /\ remMsize = 65536
    /\ remStride = 1

InitCodec ==
    /\ InitCodecVars
    /\ InitEngVars
    /\ InitUxVars
    /\ InitPullVars

Built(m) ==
    /\ built' = m
    /\ frame' = to_bytes_le(m)
    /\ UNCHANGED <<engVars, uxVars, pullVars>>

BuildRlerror ==
    /\ built = NoMsg
    /\ \E e \in U32Vals : Built(Rlerror_new(e))
BuildVersion ==
    /\ built = NoMsg
    /\ \E v \in P9Version : Built(Version_new(v))
BuildTclunk ==
    /\ built = NoMsg
    /\ \E f \in U32Vals : Built(Tclunk_new(f))
BuildRclunk ==
    /\ built = NoMsg
    /\ Built(Rclunk_new)
BuildTgetattr ==
    /\ built = NoMsg
    /\ \E f \in U32Vals, m \in U64Vals : Built(Tgetattr_new(f, m))
BuildRgetattr ==
    /\ built = NoMsg
    /\ \E v \in U64Vals, q \in QidVals, x \in U32Vals, y \in U64Vals :
           Built(Rgetattr_new(v, q, <<x, x, x>> \o [i \in 1..15 |-> y]))
BuildTstatfs ==
    /\ built = NoMsg
    /\ \E f \in U32Vals : Built(Tstatfs_new(f))
BuildRstatfs ==
    /\ built = NoMsg
    /\ \E x \in U32Vals, y \in U64Vals :
           Built(Rstatfs_new(x, x, [i \in 1..6 |-> y], x))
BuildTattach ==
    /\ built = NoMsg
    /\ \E f \in {1, -1}, u \in Names, a \in Names :
           Built(Tattach_new(f, NO_AFID, u, a, NO_NUNAME))
BuildRattach ==
    /\ built = NoMsg
    /\ \E q \in QidVals : Built(Rattach_new(q))
BuildTwalk ==
    /\ built = NoMsg
    /\ \E f \in {1, 2}, w \in SeqsUpTo(Names, MaxVecLen) :
           Built(Twalk_new(f, f + 1, w))
BuildRwalk ==
    /\ built = NoMsg
    /\ \E qs \in SeqsUpTo(QidVals, MaxVecLen) : Built(Rwalk_new(qs))
BuildTlopen ==
    /\ built = NoMsg
    /\ \E f \in U32Vals : Built(Tlopen_new(f, RdOnly))
BuildRlopen ==
    /\ built = NoMsg
    /\ \E q \in QidVals, io \in U32Vals : Built(Rlopen_new(q, io))
BuildTreaddir ==
    /\ built = NoMsg
    /\ \E f \in {2, 3}, o \in U64Vals, c \in U32Vals :
           Built(Treaddir_new(f, o, c))
BuildRreaddir ==
    /\ built = NoMsg
    /\ \E ds \in SeqsUpTo(DirentVals, MaxVecLen) : Built(Rreaddir_new(ds))
BuildTread ==
    /\ built = NoMsg
    /\ \E f \in {2, 3}, o \in U64Vals, c \in U32Vals : Built(Tread_new(f, o, c))
BuildRread ==
    /\ built = NoMsg
    /\ \E d \in ByteVecs : Built(Rread_new(d))
BuildTwrite ==
    /\ built = NoMsg
    /\ \E d \in ByteVecs, f \in {2, 3}, o \in U64Vals :
           Built(Twrite_new(d, f, o))
BuildRwrite ==
    /\ built = NoMsg
    /\ \E c \in U32Vals : Built(Rwrite_new(c))

NextCodec ==
    \/ BuildRlerror \/ BuildVersion \/ BuildTclunk \/ BuildRclunk
    \/ BuildTgetattr \/ BuildRgetattr \/ BuildTstatfs \/ BuildRstatfs
    \/ BuildTattach \/ BuildRattach \/ BuildTwalk \/ BuildRwalk
    \/ BuildTlopen \/ BuildRlopen \/ BuildTreaddir \/ BuildRreaddir
    \/ BuildTread \/ BuildRread \/ BuildTwrite \/ BuildRwrite

SpecCodec == InitCodec /\ [][NextCodec]_vars

\* ------------------------------------------------------------------------
\* C1: the size field a constructor sets equals the byte length of the
\* frame as serialized: 7 header bytes plus the payload field widths.
\* ------------------------------------------------------------------------
C1_SizeFidelity ==
    built.k # "none" => /\ built.size = Len(frame)
                     /\ SubSeq(frame, 1, 4) = le_u32(Len(frame))

\* an Rreaddir of two Dirents whose names differ in length has been built
C1_Witness ==
    /\ built.k = "Rreaddir"
    /\ Len(built.data) = 2
    /\ Len(built.data[1].name) # Len(built.data[2].name)
    /\ built.size = Len(frame)
    /\ Len(frame) > 7 + 4

\* ------------------------------------------------------------------------
\* Specification of read_msg: every expected type against reply frames
\* with every typ byte, against truncated frames and against frames
\* followed by zero bytes
\* ------------------------------------------------------------------------
MaxPad == 2

SampleQid == Qid(QT_Dir, 1, 5)

ReplySamples ==
    {Rlerror_new(2), Rlerror_new(-1),
     [Version_new("V2000L") EXCEPT !.typ = MT_Rversion],
     Rattach_new(SampleQid), Rwalk_new(<<>>), Rwalk_new(<<SampleQid>>),
     Rlopen_new(SampleQid, 0), Rreaddir_new(<<>>),
     Rreaddir_new(<<Dirent(SampleQid, 1, DT_DIR, <<97>>)>>),
     Rread_new(<<>>), Rread_new(<<1, 2>>), Rclunk_new, Rwrite_new(3),
     Twrite_new(<<9>>, 2, 0), Tclunk_new(2),
     [Rread_new(<<1, 2>>) EXCEPT !.tag = 1]}

\* the frame of m with its typ byte replaced by t
WithTyp(m, t) == [to_bytes_le(m) EXCEPT ![5] = t]

ReadMsg(R, d) ==
    /\ engR' = R
    /\ engData' = d
    /\ engRead' = d
    /\ engRes' = read_msg(R, d)
    /\ UNCHANGED <<codecVars, uxVars, pullVars>>

ReadFrame ==
    /\ engR = "none"
    /\ \E R \in MessageImpls, m \in ReplySamples, t \in 0..255 :
           ReadMsg(R, WithTyp(m, t))

ReadTruncated ==
    /\ engR = "none"
    /\ \E R \in MessageImpls, m \in ReplySamples :
           \E t \in {m.typ, MT_Rlerror}, n \in 0..(Len(to_bytes_le(m)) - 1) :
               ReadMsg(R, SubSeq(WithTyp(m, t), 1, n))

ReadPadded ==
    /\ engR = "none"
    /\ \E R \in MessageImpls, m \in ReplySamples :
           \E t \in {m.typ, MT_Rlerror}, z \in 1..MaxPad :
               ReadMsg(R, WithTyp(m, t) \o [i \in 1..z |-> 0])

Min(a, b) == IF a < b THEN a ELSE b

\* values of ChardevClient.chunk_size, the length of the read buffer
DevChunkSizes == {16, 32}

\* buf = vec![0; self.chunk_size as usize] after file.read(&mut buf)
\* returned the n bytes got
BufAfterRead(got, len) == got \o [i \in 1..(len - Len(got)) |-> 0]

\* the end of ChardevClient::send: one read of the reply into a zeroed
\* buffer of chunk_size bytes, then read_msg(buf.as_slice()).  The device
\* returns nothing, the header alone, or all of the frame that fits
ChardevRead ==
    /\ engR = "none"
    /\ \E R \in MessageImpls, m \in ReplySamples, len \in DevChunkSizes :
           \E n \in {0, 7, Min(Len(to_bytes_le(m)), len)} :
               /\ engR' = R
               /\ engRead' = SubSeq(to_bytes_le(m), 1, n)
               /\ engData' = BufAfterRead(engRead', len)
               /\ engRes' = read_msg(R, engData')
    /\ UNCHANGED <<codecVars, uxVars, pullVars>>

InitEngine ==
    /\ InitCodecVars
    /\ InitEngVars
    /\ InitUxVars
    /\ InitPullVars

NextEngine == ReadFrame \/ ReadTruncated \/ ReadPadded \/ ChardevRead

SpecEngine == InitEngine /\ [][NextEngine]_vars

\* ------------------------------------------------------------------------
\* C2: when the expected type is not Rlerror and the reply's typ is Rlerror
\* (7), read_msg never returns a response value, and fails with ServerError
\* carrying the ecode that the reply frame holds.
\* ------------------------------------------------------------------------
C2_RlerrorIsServerError ==
    (/\ engR \notin {"none", "Rlerror"}
     /\ Len(engData) >= 7
     /\ engData[5] = MT_Rlerror)
    => /\ engRes.k # "Ok"
       /\ Len(engData) >= 11 =>
            engRes = [k |-> "ServerError", ecode |-> rd_u32(engData, 8)]

\* an Rlerror{ecode = 2} frame was read while Rattach was expected
C2_Witness ==
    /\ engR = "Rattach"
    /\ engData = to_bytes_le(Rlerror_new(2))
    /\ engRes.k = "ServerError"
    /\ engRes.ecode = 2

\* ------------------------------------------------------------------------
\* C3 (as stated): for every typ byte other than opcode(R) and Rlerror,
\* read_msg fails with UnexpectedReturnType(opcode(R), typ).
\* ------------------------------------------------------------------------
C3_AnyByteIsUnexpectedType ==
    (/\ engR # "none"
     /\ Len(engData) >= 7
     /\ engData[5] \notin {message_type(engR), MT_Rlerror})
    => engRes = [k |-> "UnexpectedReturnType",
                 expected |-> message_type(engR), got |-> engData[5]]

\* C3 (amended): for every typ byte that is a discriminant of MessageType,
\* other than opcode(R) and Rlerror, read_msg fails with
\* UnexpectedReturnType(opcode(R), typ); a byte that is no discriminant
\* fails in the decoder instead.
C3_KnownTypeIsUnexpectedType ==
    (/\ engR # "none"
     /\ Len(engData) >= 7
     /\ engData[5] \notin {message_type(engR), MT_Rlerror})
    => IF engData[5] \in MessageType
       THEN engRes = [k |-> "UnexpectedReturnType",
                      expected |-> message_type(engR), got |-> engData[5]]
       ELSE engRes = ResDecode

\* an Rversion frame was read while Rattach was expected
C3_Witness ==
    /\ engR = "Rattach"
    /\ Len(engData) >= 7
    /\ engData[5] = MT_Rversion
    /\ engRes = [k |-> "UnexpectedReturnType",
                 expected |-> MT_Rattach, got |-> MT_Rversion]

\* ------------------------------------------------------------------------
\* Stream transport: UnixClient::send against a server on the other end of
\* the socket.  The server consumes a request once all `size` bytes of it
\* have arrived and delivers its reply in one or several segments.
\* ------------------------------------------------------------------------
MaxSends == 2

READ_BUF == 1024

ResIo == [k |-> "IoError"]

\* the places where the socket may split a frame of len bytes: after the
\* size field, after the header, or not at all
SegPoints(len) == {n \in 1..len : n \in {4, 7, len}}

\* the requests of the sends, each with the response type it expects
UnixRequests ==
    {<<[Version_new("V2000L") EXCEPT !.msize = 65536], "Version">>,
     <<Tread_new(2, 0, 65525), "Rread">>}

\* the reply frames a server may produce for a request of type typ
UnixReplies(typ) ==
    {to_bytes_le(Rlerror_new(2))} \cup
    CASE typ = MT_Tversion ->
            {to_bytes_le([Version_new("V2000L") EXCEPT !.typ = MT_Rversion])}
      [] typ = MT_Tread -> {to_bytes_le(Rread_new(<<1, 2>>))}
      [] OTHER -> {}

MaxCalls == 1

\* UnixClient::connect: the stream is replaced by a newly connected one
UnixConnectOk ==
    /\ uxConn' = uxConn + 1
    /\ chC2S' = <<>>
    /\ chS2C' = <<>>
    /\ chEof' = FALSE
    /\ chReady' = FALSE
    /\ srvTodo' = <<>>

\* connect() called by the user of the client between two sends: on
\* success self.connection is assigned the new stream, whatever it held;
\* on failure `?` returns before the assignment
UnixConnect ==
    /\ uxPhase \in {"idle", "done"}
    /\ uxCalls < MaxCalls
    /\ uxCalls' = uxCalls + 1
    /\ \/ UnixConnectOk
       \/ UNCHANGED <<uxConn, chC2S, chS2C, chEof, chReady, srvTodo>>
    /\ UNCHANGED <<pullVars, codecVars, engVars, uxPhase, uxT, uxR, uxWrote,
                   uxMsg, uxRes, uxSends, srvReply, uxLazy>>

\* a client that never finds its connection
HasConnection_Never == FALSE

\* `match &self.connection`: Some(s)
HasConnection == uxConn # 0

\* send, up to the write loop: use the connection or connect first
UnixSendBegin ==
    /\ uxPhase \in {"idle", "done"}
    /\ uxSends < MaxSends
    /\ \E job \in UnixRequests :
        /\ uxT' = job[1]
        /\ uxR' = job[2]
    /\ uxSends' = uxSends + 1
    /\ uxWrote' = 0
    /\ uxMsg' = <<>>
    /\ srvReply' = <<>>
    /\ IF HasConnection
       THEN /\ uxPhase' = "write"
            /\ uxRes' = NoRes
            /\ UNCHANGED <<uxConn, chC2S, chS2C, chEof, chReady, srvTodo,
                           uxLazy>>
       ELSE \/ /\ UnixConnectOk
               /\ uxLazy' = uxLazy + 1
               /\ uxPhase' = "write"
               /\ uxRes' = NoRes
            \/ /\ uxPhase' = "done"
               /\ uxRes' = ResIo
               /\ UNCHANGED <<uxConn, chC2S, chS2C, chEof, chReady, srvTodo,
                              uxLazy>>
    /\ UNCHANGED <<pullVars, codecVars, engVars, uxCalls>>

\* the write loop: try_write gives Ok(n) for the n bytes the socket took
\* (then break), WouldBlock (retry, no change of state) or an error
UnixTryWrite ==
    /\ uxPhase = "write"
    /\ LET out == to_bytes_le(uxT)
       IN  \/ \E n \in SegPoints(Len(out)) :
                /\ chC2S' = chC2S \o SubSeq(out, 1, n)
                /\ uxWrote' = n
                /\ uxPhase' = "read"
                /\ uxRes' = uxRes
           \/ /\ uxPhase' = "done"
              /\ uxRes' = ResIo
              /\ UNCHANGED <<chC2S, uxWrote>>
    /\ UNCHANGED <<pullVars, codecVars, engVars, uxLazy, uxCalls,
                   uxConn, uxT, uxR, uxMsg, uxSends,
                   chS2C, chEof, chReady, srvTodo, srvReply>>

\* server: a whole request frame has arrived; consume it and produce a reply
\* (a size field below the header length is never answered)
ServerAnswer ==
    /\ ~chEof
    /\ Len(chC2S) >= 7
    /\ rd_u32(chC2S, 1) >= 7
    /\ Len(chC2S) >= rd_u32(chC2S, 1)
    /\ \E r \in UnixReplies(rd_u8(chC2S, 5)) :
        /\ srvTodo' = srvTodo \o r
        /\ srvReply' = r
    /\ chC2S' = SubSeq(chC2S, rd_u32(chC2S, 1) + 1, Len(chC2S))
    /\ UNCHANGED <<pullVars, codecVars, engVars, uxLazy, uxCalls,
                   uxConn, uxPhase, uxT, uxR, uxWrote,
                   uxMsg, uxRes, uxSends, chS2C, chEof, chReady>>

\* server: the next segment of the reply reaches the client's socket
ServerDeliver ==
    /\ srvTodo # <<>>
    /\ \E n \in SegPoints(Len(srvTodo)) :
        /\ chS2C' = chS2C \o SubSeq(srvTodo, 1, n)
        /\ srvTodo' = SubSeq(srvTodo, n + 1, Len(srvTodo))
    /\ chReady' = TRUE
    /\ UNCHANGED <<pullVars, codecVars, engVars, uxLazy, uxCalls,
                   uxConn, uxPhase, uxT, uxR, uxWrote,
                   uxMsg, uxRes, uxSends, chC2S, chEof, srvReply>>

\* server: closes its end once nothing is left to deliver
ServerClose ==
    /\ uxConn # 0
    /\ ~chEof
    /\ srvTodo = <<>>
    /\ chEof' = TRUE
    /\ chReady' = TRUE
    /\ UNCHANGED <<pullVars, codecVars, engVars, uxLazy, uxCalls,
                   uxConn, uxPhase, uxT, uxR, uxWrote,
                   uxMsg, uxRes, uxSends, chC2S, chS2C, srvTodo, srvReply>>

\* the read loop, one iteration: Ok(n) appends and loops
UnixTryReadSome ==
    /\ uxPhase = "read"
    /\ chReady
    /\ chS2C # <<>>
    /\ LET n == Min(Len(chS2C), READ_BUF)
       IN  /\ uxMsg' = uxMsg \o SubSeq(chS2C, 1, n)
           /\ chS2C' = SubSeq(chS2C, n + 1, Len(chS2C))
    /\ UNCHANGED <<pullVars, codecVars, engVars, uxLazy, uxCalls,
                   uxConn, uxPhase, uxT, uxR, uxWrote,
                   uxRes, uxSends, chC2S, chEof, chReady, srvTodo, srvReply>>

\* the read loop, last iteration: Ok(0) at end of file or WouldBlock breaks
\* out; msg goes to read_msg and send returns
UnixTryReadBreak ==
    /\ uxPhase = "read"
    /\ chReady
    /\ chS2C = <<>>
    /\ chReady' = chEof
    /\ uxRes' = read_msg(uxR, uxMsg)
    /\ uxPhase' = "done"
    /\ UNCHANGED <<pullVars, codecVars, engVars, uxLazy, uxCalls,
                   uxConn, uxT, uxR, uxWrote, uxMsg,
                   uxSends, chC2S, chS2C, chEof, srvTodo, srvReply>>

InitUnix ==
    /\ InitCodecVars
    /\ InitEngVars
    /\ InitUxVars
    /\ InitPullVars

NextUnix ==
    \/ UnixConnect \/ UnixSendBegin \/ UnixTryWrite \/ ServerAnswer \/ ServerDeliver
    \/ ServerClose \/ UnixTryReadSome \/ UnixTryReadBreak

SpecUnix == InitUnix /\ [][NextUnix]_vars

\* ------------------------------------------------------------------------
\* C5 (as stated): when the write phase of send has completed without
\* error, every byte of the serialized request has been written.
\* ------------------------------------------------------------------------
C5_WriteIsComplete ==
    (uxPhase = "read" \/ (uxPhase = "done" /\ uxWrote > 0))
    => uxWrote = Len(to_bytes_le(uxT))

\* ------------------------------------------------------------------------
\* C6 (as stated): the bytes handed to the decoder are exactly one complete
\* reply frame, the one the server produced for this request.
\* ------------------------------------------------------------------------
C6_DecodesOneWholeFrame ==
    (uxPhase = "done" /\ uxWrote > 0 /\ uxRes # ResIo /\ srvReply # <<>>)
    => uxMsg = srvReply

\* ------------------------------------------------------------------------
\* Pull driver (bin/p9kp.rs) against a remote 9P server.  A send writes the
\* whole request frame and reads one whole reply frame, which goes through
\* read_msg; the server is the environment of the program.
\* ------------------------------------------------------------------------
HEADER_SPACE == 11

\* the chunk_size find_virtfs_dev gives its ChardevClient
DEV_CHUNK_SIZE == 65536

MaxBatch == 2
MaxFaults == 1

\* values of --chunk-size: below HEADER_SPACE, just above the size of a
\* Treaddir frame, and the default
ChunkSizes == {8, 34, 65536}

DT_REG == 8

\* u32 subtraction that wraps; the populations keep a - b within 32 bits,
\* and a negative result is the pattern of the wrapped value
wrapping_sub(a, b) == a - b

STR_root == <<114, 111, 111, 116>>
STR_todo == <<47, 116, 111, 100, 111>>
STR_dot == <<46>>
STR_dotdot == <<46, 46>>
NameA == <<97>>
NameB == <<98>>
NameD == <<100>>
NameL == <<108>>

\* a node of the exported tree; path is the sequence of its components
Node(typ, path, data) == [typ |-> typ, path |-> path, data |-> data]

\* the exported trees, each in listing order (a parent before its children)
Trees ==
    {<<>>,
     <<Node(QT_File, <<NameA>>, <<1, 2, 3>>), Node(QT_File, <<NameB>>, <<>>)>>,
     <<Node(QT_Dir, <<NameD>>, <<>>)>>,
     <<Node(QT_Dir, <<NameD>>, <<>>), Node(QT_File, <<NameD, NameA>>, <<7>>),
       Node(QT_File, <<NameB>>, <<8, 9>>)>>,
     <<Node(QT_Dir, <<NameD>>, <<>>), Node(QT_Dir, <<NameD, NameD>>, <<>>),
       Node(QT_File, <<NameD, NameD, NameA>>, <<5>>)>>,
     <<Node(QT_Link, <<NameL>>, <<>>), Node(QT_File, <<NameA>>, <<4>>)>>,
     <<Node(QT_File, <<STR_dot>>, <<6>>)>>,
     <<Node(QT_Dir + QT_Append, <<NameD>>, <<>>),
       Node(QT_File, <<NameD, NameA>>, <<7>>)>>}

RemVersions == {V2000L, V2000U, <<63>>}

\* the largest msize a server accepts: below and at the default chunk size
RemMsizes == {4096, 65536}

\* the step of the directory cookies: the entry count, or twice it
RemStrides == {1, 2}

RemExists(p) == p = <<>> \/ \E i \in 1..Len(remTree) : remTree[i].path = p

RemIndex(p) ==
    IF p = <<>> THEN 0
    ELSE CHOOSE i \in 1..Len(remTree) : remTree[i].path = p

RemQid(p) ==
    IF p = <<>> THEN Qid(QT_Dir, 0, 0)
    ELSE Qid(remTree[RemIndex(p)].typ, 0, RemIndex(p))

RemChildren(p) ==
    LET IsChild(n) ==
            /\ Len(n.path) = Len(p) + 1
            /\ SubSeq(n.path, 1, Len(p)) = p
    IN  SelectSeq(remTree, IsChild)

\* the listing of directory p; the offset of the i-th entry, the cookie to
\* go on after it, is i * remStride
RemListing(p) ==
    LET dots == IF remDots THEN <<STR_dot, STR_dotdot>> ELSE <<>>
        kids == RemChildren(p)
    IN  [i \in 1..(Len(dots) + Len(kids)) |->
            IF i <= Len(dots)
            THEN Dirent(Qid(QT_Dir, 0, RemIndex(p)), i * remStride, DT_DIR,
                        dots[i])
            ELSE LET c == kids[i - Len(dots)]
                 IN  Dirent(RemQid(c.path), i * remStride,
                            IF c.typ = QT_Dir THEN DT_DIR ELSE DT_REG,
                            c.path[Len(c.path)])]

\* the entries whose cookie lies beyond t.offset: at most remBatch of
\* them, and no more bytes than t.count when the server honours it
RemReaddir(t) ==
    LET all == RemListing(remFids[t.fid])
        rest == SubSeq(all, (t.offset \div remStride) + 1, Len(all))
        most == Min(Len(rest), remBatch)
        Fits(k) ==
            remObeys =>
                ~ULt32(t.count, SumOver(SubSeq(rest, 1, k), Dirent_wire_size))
        n == CHOOSE k \in 0..most :
                 Fits(k) /\ \A j \in (k + 1)..most : ~Fits(j)
    IN  Rreaddir_new(SubSeq(rest, 1, n))

RemRead(t) ==
    LET all == remTree[RemIndex(remFids[t.fid])].data
        rest == SubSeq(all, t.offset + 1, Len(all))
        most == Min(Len(rest), remBatch)
        n == IF ULt32(t.count, most) THEN t.count ELSE most
    IN  Rread_new(SubSeq(rest, 1, n))

RemVersionReply(t) ==
    [k |-> "Version", size |-> 4 + 1 + 2 + 4 + 2 + Len(remVersion),
     typ |-> MT_Rversion, tag |-> 0, version |-> remVersion,
     msize |-> IF ULt32(remMsize, t.msize) THEN remMsize ELSE t.msize]

\* the proper reply of the server to request t
RemAnswer(t) ==
    CASE t.k = "Version" -> RemVersionReply(t)
      [] t.k = "Tattach" -> Rattach_new(RemQid(<<>>))
      [] t.k \in {"Twalk", "Tlopen", "Treaddir", "Tread"} ->
            IF t.fid \notin DOMAIN remFids THEN Rlerror_new(9)
            ELSE LET p == remFids[t.fid]
                 IN  CASE t.k = "Twalk" ->
                            IF RemExists(p \o t.wname)
                            THEN Rwalk_new(
                                   [i \in 1..Len(t.wname) |->
                                       RemQid(p \o SubSeq(t.wname, 1, i))])
                            ELSE Rlerror_new(2)
                       [] t.k = "Tlopen" -> Rlopen_new(RemQid(p), 0)
                       [] t.k = "Treaddir" ->
                            IF RemQid(p).typ = QT_Dir THEN RemReaddir(t)
                            ELSE Rlerror_new(20)
                       [] t.k = "Tread" ->
                            IF RemQid(p).typ = QT_File THEN RemRead(t)
                            ELSE Rlerror_new(21)

\* the fid table after the proper reply to t
RemFidsAfter(t) ==
    CASE t.k = "Tattach" -> (t.fid :> <<>>) @@ remFids
      [] t.k = "Twalk" /\ t.fid \in DOMAIN remFids
           /\ RemExists(remFids[t.fid] \o t.wname) ->
            (t.newfid :> (remFids[t.fid] \o t.wname)) @@ remFids
      [] OTHER -> remFids

\* replies that are not the proper one: a server error, a reply of another
\* type, and for a walk of one component an Rwalk without Qids
RemFaultyReplies(t) ==
    {Rlerror_new(5), Rclunk_new} \cup
    IF t.k = "Twalk" /\ t.wname # <<>> THEN {Rwalk_new(<<>>)} ELSE {}

\* ------------------------------------------------------------------------
\* Client::send as the driver uses it
\* ------------------------------------------------------------------------
envVars == <<remVars, cfgVars, codecVars, engVars, uxVars>>

\* a driver that goes on without waiting for its send
Returned_NoAwait == TRUE

\* `.await` on a send: the driver goes on once that send has returned
Returned == req.k = "none"

\* a driver that drops the Err of a send
IsErr_Never(r) == FALSE

\* `?` on the value of a send
IsErr(r) ==
    r.k \in {"ServerError", "UnexpectedReturnType", "DecodeError", "IoError"}

\* client.send::<T, R>(&t): the request frame is written
Send(t, R) ==
    /\ req' = t
    /\ expR' = R
    /\ outstanding' = outstanding + 1
    /\ log' = Append(log, t)
    /\ devReads' = 0
    /\ UNCHANGED <<reply, res, devCap>>

\* a driver that sends the request once more after an Err
Fail_Retry ==
    /\ Send(log[Len(log) - 1], expR)
    /\ UNCHANGED <<pc, stack, nextfid, runOffset, max_msg_size, cfNewfid,
                   cfFp, cfOffset, fsVars>>

\* an Err leaves run through `?`
Fail ==
    /\ pc' = "failed"
    /\ UNCHANGED <<stack, nextfid, runOffset, max_msg_size, cfNewfid, cfFp,
                   cfOffset, wireVars, fsVars>>

\* the server answers the request with its proper reply
RemoteReply ==
    /\ req.k # "none"
    /\ reply = <<>>
    /\ reply' = to_bytes_le(RemAnswer(req))
    /\ remFids' = RemFidsAfter(req)
    /\ UNCHANGED <<drvVars, req, expR, res, outstanding, log, devReads,
                   devCap, fsVars, remFaults, cfgVars, codecVars, engVars,
                   uxVars>>

\* the server answers with another reply, or with the proper one under a
\* typ byte that is no message type
RemoteFault ==
    /\ req.k # "none"
    /\ reply = <<>>
    /\ remFaults < MaxFaults
    /\ \E f \in {to_bytes_le(m) : m \in RemFaultyReplies(req)}
                 \cup {WithTyp(RemAnswer(req), 1)} :
           reply' = f
    /\ remFaults' = remFaults + 1
    /\ UNCHANGED <<drvVars, req, expR, res, outstanding, log, devReads,
                   devCap, fsVars, remFids, cfgVars, codecVars, engVars,
                   uxVars>>

\* send returns with an I/O error of the transport
SendIoError ==
    /\ req.k # "none"
    /\ reply = <<>>
    /\ remFaults < MaxFaults
    /\ remFaults' = remFaults + 1
    /\ res' = ResIo
    /\ req' = NoMsg
    /\ outstanding' = outstanding - 1
    /\ log' = Append(log, ResIo)
    /\ UNCHANGED <<drvVars, expR, reply, devReads, devCap, fsVars, remFids,
                   cfgVars, codecVars, engVars, uxVars>>

\* file.read(&mut buf) on a buf of DEV_CHUNK_SIZE bytes: what of the reply
\* fits into it.  The replies of a pull are whole frames, and behind a
\* whole frame the decoder leaves the zero fill of buf unread
DevRead(r) == SubSeq(r, 1, Min(Len(r), DEV_CHUNK_SIZE))

\* send returns: the reply is read from the device by one read and goes
\* through read_msg
SendReturns ==
    /\ reply # <<>>
    /\ devReads' = devReads + 1
    /\ devCap' = DEV_CHUNK_SIZE
    /\ res' = read_msg(expR, DevRead(reply))
    /\ log' = Append(log, res')
    /\ req' = NoMsg
    /\ reply' = <<>>
    /\ outstanding' = outstanding - 1
    /\ UNCHANGED <<drvVars, expR, fsVars, remVars, cfgVars, codecVars,
                   engVars, uxVars>>

\* ------------------------------------------------------------------------
\* run
\* ------------------------------------------------------------------------
RunVersion ==
    /\ pc = "start"
    /\ Send([Version_new("V2000L") EXCEPT !.msize = chunk_size], "Version")
    /\ pc' = "run_attach"
    /\ UNCHANGED <<stack, nextfid, runOffset, max_msg_size, cfNewfid, cfFp,
                   cfOffset, fsVars, envVars>>

RunAttach ==
    /\ pc = "run_attach"
    /\ Returned
    /\ IF IsErr(res) THEN Fail
       ELSE /\ Send(Tattach_new(1, NO_AFID, STR_root, STR_todo, NO_NUNAME),
                    "Rattach")
            /\ pc' = "run_walk"
            /\ UNCHANGED <<stack, nextfid, runOffset, max_msg_size,
                           cfNewfid, cfFp, cfOffset, fsVars>>
    /\ UNCHANGED envVars

RunWalk ==
    /\ pc = "run_walk"
    /\ Returned
    /\ IF IsErr(res) THEN Fail
       ELSE /\ Send(Twalk_new(1, 2, <<>>), "Rwalk")
            /\ pc' = "run_open"
            /\ UNCHANGED <<stack, nextfid, runOffset, max_msg_size,
                           cfNewfid, cfFp, cfOffset, fsVars>>
    /\ UNCHANGED envVars

RunOpen ==
    /\ pc = "run_open"
    /\ Returned
    /\ IF IsErr(res) THEN Fail
       ELSE /\ Send(Tlopen_new(2, RdOnly), "Rlopen")
            /\ pc' = "run_init"
            /\ UNCHANGED <<stack, nextfid, runOffset, max_msg_size,
                           cfNewfid, cfFp, cfOffset, fsVars>>
    /\ UNCHANGED envVars

\* offset, nextfid and max_msg_size; the subtraction wraps in a build
\* without overflow checks
RunInit ==
    /\ pc = "run_init"
    /\ Returned
    /\ IF IsErr(res) THEN Fail
       ELSE /\ runOffset' = 0
            /\ nextfid' = 3
            /\ max_msg_size' = wrapping_sub(chunk_size, HEADER_SPACE)
            /\ pc' = "run_loop"
            /\ UNCHANGED <<stack, cfNewfid, cfFp, cfOffset, wireVars, fsVars>>
    /\ UNCHANGED envVars

\* the subtraction panics in a build with overflow checks
RunPanic ==
    /\ pc = "run_init"
    /\ Returned
    /\ ~IsErr(res)
    /\ ULt32(chunk_size, HEADER_SPACE)
    /\ pc' = "panicked"
    /\ UNCHANGED <<stack, nextfid, runOffset, max_msg_size, cfNewfid, cfFp,
                   cfOffset, wireVars, fsVars, envVars>>

RunReaddir ==
    /\ pc = "run_loop"
    /\ Send(Treaddir_new(2, runOffset, max_msg_size), "Rreaddir")
    /\ pc' = "run_resp"
    /\ UNCHANGED <<stack, nextfid, runOffset, max_msg_size, cfNewfid, cfFp,
                   cfOffset, fsVars, envVars>>

\* a copydir activation: its parameters readdir.data (what is left of it,
\* the entry at work first), fid and path, and the newfid and offset of the
\* entry at work
Frame(data, fid, path) ==
    [path |-> path, offset |-> 0, fid |-> fid, newfid |-> 0, data |-> data]

\* a cursor that takes the cookie of the last entry received
advance_ByCookie(offset, data) == data[Len(data)].offset

\* offset += resp.data.len() as u64 (run and copydir)
advance(offset, data) == offset + Len(data)

RunResp ==
    /\ pc = "run_resp"
    /\ Returned
    /\ IF IsErr(res) THEN Fail
       ELSE /\ IF res.msg.data = <<>>
               THEN /\ pc' = "done"
                    /\ UNCHANGED <<runOffset, stack>>
               ELSE /\ runOffset' = advance(runOffset, res.msg.data)
                    /\ stack' = <<Frame(res.msg.data, 2, <<>>)>>
                    /\ pc' = "cd"
            /\ UNCHANGED <<nextfid, max_msg_size, cfNewfid, cfFp, cfOffset,
                           wireVars, fsVars>>
    /\ UNCHANGED envVars

\* after copydir: readdir is the request, a frame of 23 bytes
RunAfter ==
    /\ pc = "run_after"
    /\ pc' = IF ULt32(Treaddir_new(2, runOffset, max_msg_size).size,
                      max_msg_size)
             THEN "done" ELSE "run_loop"
    /\ UNCHANGED <<stack, nextfid, runOffset, max_msg_size, cfNewfid, cfFp,
                   cfOffset, wireVars, fsVars, envVars>>

\* ------------------------------------------------------------------------
\* copydir and copyfile
\* ------------------------------------------------------------------------
Top == stack[Len(stack)]

SetTop(f) == [stack EXCEPT ![Len(stack)] = f]

\* the for loop moves on to the next entry
NextEntry == SetTop([Top EXCEPT !.data = Tail(@)])

IsDirEntry(e) == e.qid.typ = QT_Dir \/ e.typ = DT_DIR

IsDotName(n) == n = STR_dot \/ n = STR_dotdot

\* a test that takes every entry for a plain file
IsPlainFile_Any(e) == TRUE

\* entry.qid.typ == QidType::File
IsPlainFile(e) == e.qid.typ = QT_File

\* std::fs::create_dir_all(fp): fp and every ancestor of it
create_dir_all(fp) == localDirs \cup {SubSeq(fp, 1, n) : n \in 1..Len(fp)}

\* the for loop is over: copydir returns Ok to its caller
CopydirReturn ==
    /\ pc = "cd"
    /\ Top.data = <<>>
    /\ stack' = SubSeq(stack, 1, Len(stack) - 1)
    /\ pc' = IF Len(stack) = 1 THEN "run_after" ELSE "cd_after"
    /\ UNCHANGED <<nextfid, runOffset, max_msg_size, cfNewfid, cfFp,
                   cfOffset, wireVars, fsVars, envVars>>

\* `continue` for "." and "..", and an entry that is neither a directory
\* nor a plain file
CopydirSkip ==
    /\ pc = "cd"
    /\ Top.data # <<>>
    /\ LET e == Head(Top.data)
       IN  IF IsDirEntry(e) THEN IsDotName(e.name) ELSE ~IsPlainFile(e)
    /\ stack' = NextEntry
    /\ UNCHANGED <<pc, nextfid, runOffset, max_msg_size, cfNewfid, cfFp,
                   cfOffset, wireVars, fsVars, envVars>>

\* a fid allocator that hands out the same value again
bump_Reuse(f) == f

\* *nextfid += 1 after newfid was taken from it (copydir and copyfile)
bump(f) == f + 1

\* a directory entry: mint newfid and walk to it
CopydirWalk ==
    /\ pc = "cd"
    /\ Top.data # <<>>
    /\ IsDirEntry(Head(Top.data))
    /\ ~IsDotName(Head(Top.data).name)
    /\ Send(Twalk_new(Top.fid, nextfid, <<Head(Top.data).name>>), "Rwalk")
    /\ stack' = SetTop([Top EXCEPT !.newfid = nextfid])
    /\ nextfid' = bump(nextfid)
    /\ pc' = "cd_open"
    /\ UNCHANGED <<runOffset, max_msg_size, cfNewfid, cfFp, cfOffset,
                   fsVars, envVars>>

CopydirOpen ==
    /\ pc = "cd_open"
    /\ Returned
    /\ IF IsErr(res) THEN Fail
       ELSE /\ Send(Tlopen_new(Top.newfid, RdOnly), "Rlopen")
            /\ pc' = "cd_init"
            /\ UNCHANGED <<stack, nextfid, runOffset, max_msg_size,
                           cfNewfid, cfFp, cfOffset, fsVars>>
    /\ UNCHANGED envVars

CopydirInit ==
    /\ pc = "cd_init"
    /\ Returned
    /\ IF IsErr(res) THEN Fail
       ELSE /\ stack' = SetTop([Top EXCEPT !.offset = 0])
            /\ pc' = "cd_loop"
            /\ UNCHANGED <<nextfid, runOffset, max_msg_size, cfNewfid, cfFp,
                           cfOffset, wireVars, fsVars>>
    /\ UNCHANGED envVars

CopydirReaddir ==
    /\ pc = "cd_loop"
    /\ Send(Treaddir_new(Top.newfid, Top.offset,
                         wrapping_sub(chunk_size, HEADER_SPACE)),
            "Rreaddir")
    /\ pc' = "cd_resp"
    /\ UNCHANGED <<stack, nextfid, runOffset, max_msg_size, cfNewfid, cfFp,
                   cfOffset, fsVars, envVars>>

\* an empty reply ends the entry; otherwise the local directory is made and
\* copydir is called on the reply
CopydirResp ==
    /\ pc = "cd_resp"
    /\ Returned
    /\ IF IsErr(res) THEN Fail
       ELSE /\ pc' = "cd"
            /\ IF res.msg.data = <<>>
               THEN /\ stack' = NextEntry
                    /\ UNCHANGED localDirs
               ELSE LET fp == Top.path \o <<Head(Top.data).name>>
                    IN  /\ localDirs' = create_dir_all(fp)
                        /\ stack' =
                             Append(
                               SetTop([Top EXCEPT
                                         !.offset =
                                            advance(@, res.msg.data)]),
                               Frame(res.msg.data, Top.newfid, fp))
            /\ UNCHANGED <<nextfid, runOffset, max_msg_size, cfNewfid, cfFp,
                           cfOffset, wireVars, localFiles>>
    /\ UNCHANGED envVars

\* after the recursive copydir: readdir is the request, a frame of 23 bytes
CopydirAfter ==
    /\ pc = "cd_after"
    /\ LET chunk == wrapping_sub(chunk_size, HEADER_SPACE)
       IN  IF ULt32(Treaddir_new(Top.newfid, Top.offset, chunk).size, chunk)
           THEN /\ stack' = NextEntry
                /\ pc' = "cd"
           ELSE /\ pc' = "cd_loop"
                /\ UNCHANGED stack
    /\ UNCHANGED <<nextfid, runOffset, max_msg_size, cfNewfid, cfFp,
                   cfOffset, wireVars, fsVars, envVars>>

\* a plain file entry: copyfile mints newfid and walks to it
CopyfileWalk ==
    /\ pc = "cd"
    /\ Top.data # <<>>
    /\ ~IsDirEntry(Head(Top.data))
    /\ IsPlainFile(Head(Top.data))
    /\ Send(Twalk_new(Top.fid, nextfid, <<Head(Top.data).name>>), "Rwalk")
    /\ cfNewfid' = nextfid
    /\ nextfid' = bump(nextfid)
    /\ pc' = "cf_open"
    /\ UNCHANGED <<stack, runOffset, max_msg_size, cfFp, cfOffset, fsVars,
                   envVars>>

CopyfileOpen ==
    /\ pc = "cf_open"
    /\ Returned
    /\ IF IsErr(res) THEN Fail
       ELSE /\ Send(Tlopen_new(cfNewfid, RdOnly), "Rlopen")
            /\ pc' = "cf_create"
            /\ UNCHANGED <<stack, nextfid, runOffset, max_msg_size,
                           cfNewfid, cfFp, cfOffset, fsVars>>
    /\ UNCHANGED envVars

\* the local file is opened (created if missing) and truncated; the open
\* fails when its directory is missing or fp is a directory, as "." and
\* ".." always are
CopyfileCreate ==
    /\ pc = "cf_create"
    /\ Returned
    /\ LET fp == Top.path \o <<Head(Top.data).name>>
       IN  IF \/ IsErr(res)
              \/ (Top.path # <<>> /\ Top.path \notin localDirs)
              \/ fp \in localDirs
              \/ IsDotName(Head(Top.data).name)
           THEN Fail
           ELSE /\ cfFp' = fp
                /\ localFiles' = (fp :> <<>>) @@ localFiles
                /\ cfOffset' = 0
                /\ pc' = "cf_loop"
                /\ UNCHANGED <<stack, nextfid, runOffset, max_msg_size,
                               cfNewfid, wireVars, localDirs>>
    /\ UNCHANGED envVars

CopyfileRead ==
    /\ pc = "cf_loop"
    /\ Send(Tread_new(cfNewfid, cfOffset,
                      wrapping_sub(chunk_size, HEADER_SPACE)),
            "Rread")
    /\ pc' = "cf_resp"
    /\ UNCHANGED <<stack, nextfid, runOffset, max_msg_size, cfNewfid, cfFp,
                   cfOffset, fsVars, envVars>>

\* a write that replaces what the file holds
write_all_Overwrite(content, data) == data

\* file.write_all(f.data.as_slice()) on a file opened with append(true)
write_all(content, data) == content \o data

\* an empty reply ends the file; otherwise the data is appended
CopyfileResp ==
    /\ pc = "cf_resp"
    /\ Returned
    /\ IF IsErr(res) THEN Fail
       ELSE /\ IF res.msg.data = <<>>
               THEN /\ stack' = NextEntry
                    /\ pc' = "cd"
                    /\ UNCHANGED <<cfOffset, localFiles>>
               ELSE /\ cfOffset' = cfOffset + Len(res.msg.data)
                    /\ localFiles' =
                         [localFiles EXCEPT
                            ![cfFp] = write_all(@, res.msg.data)]
                    /\ pc' = "cf_loop"
                    /\ UNCHANGED stack
            /\ UNCHANGED <<nextfid, runOffset, max_msg_size, cfNewfid, cfFp,
                           wireVars, localDirs>>
    /\ UNCHANGED envVars

\* ------------------------------------------------------------------------
\* Specification of a pull
\* ------------------------------------------------------------------------
InitPull ==
    /\ InitCodecVars
    /\ InitEngVars
    /\ InitUxVars
    /\ InitPullState
    /\ chunk_size \in ChunkSizes
    /\ remTree \in Trees
    /\ remVersion \in RemVersions
    /\ remBatch \in 1..MaxBatch
    /\ remDots \in BOOLEAN
    /\ remObeys \in BOOLEAN
    /\ remMsize \in RemMsizes
    /\ remStride \in RemStrides

NextPull ==
    \/ RunVersion \/ RunAttach \/ RunWalk \/ RunOpen \/ RunInit \/ RunPanic
    \/ RunReaddir \/ RunResp \/ RunAfter
    \/ CopydirReturn \/ CopydirSkip \/ CopydirWalk \/ CopydirOpen
    \/ CopydirInit \/ CopydirReaddir \/ CopydirResp \/ CopydirAfter
    \/ CopyfileWalk \/ CopyfileOpen \/ CopyfileCreate \/ CopyfileRead
    \/ CopyfileResp
    \/ RemoteReply \/ RemoteFault \/ SendIoError \/ SendReturns

SpecPull == InitPull /\ [][NextPull]_vars

\* the entries of log that are requests; the others are results of sends
IsReq(x) ==
    x.k \in {"Version", "Tattach", "Twalk", "Tlopen", "Treaddir", "Tread"}

\* log[i] is the Ok result of a send that carries a reply of struct k
IsOkReply(i, k) == log[i].k = "Ok" /\ log[i].msg.k = k

\* ------------------------------------------------------------------------
\* C4: sends on one transport are strictly serialized: at most one request
\* is written whose send has not returned, and between two requests written
\* the result of the earlier send has been returned.
\* ------------------------------------------------------------------------
C4_SendsSerialized ==
    /\ outstanding <= 1
    /\ \A i \in 1..(Len(log) - 1) : IsReq(log[i]) => ~IsReq(log[i + 1])

\* a second request is in flight after the first send returned
C4_Witness ==
    /\ outstanding = 1
    /\ Len(log) = 3
    /\ log[2].k = "Ok"
    /\ log[3].k = "Tattach"

\* ------------------------------------------------------------------------
\* C7 (as stated): when the version of the server's Rversion is not
\* "9P2000.L", the pull fails and no Tattach or later request is sent.
\* ------------------------------------------------------------------------
C7_OtherVersionFails ==
    (/\ Len(log) >= 2
     /\ IsOkReply(2, "Version")
     /\ log[2].msg.version # V2000L)
    => /\ Len(log) = 2
       /\ pc # "done"

\* ------------------------------------------------------------------------
\* C8: the requests of a pull begin with Tversion (msize = chunk size),
\* Tattach (fid 1), Twalk (1 -> 2, no wname), Tlopen (2, RdOnly), Treaddir
\* (2, offset 0), each written only after the matching reply to the one
\* before it was received; so no Tread and no other Treaddir comes earlier.
\* ------------------------------------------------------------------------
C8_PrologueOrder ==
    /\ Len(log) >= 1 =>
        /\ log[1].k = "Version"
        /\ log[1].msize = chunk_size
    /\ Len(log) >= 3 =>
        /\ IsOkReply(2, "Version")
        /\ log[2].msg.typ = MT_Rversion
        /\ log[3].k = "Tattach"
        /\ log[3].fid = 1
    /\ Len(log) >= 5 =>
        /\ IsOkReply(4, "Rattach")
        /\ log[5].k = "Twalk"
        /\ log[5].fid = 1
        /\ log[5].newfid = 2
        /\ log[5].wname = <<>>
    /\ Len(log) >= 7 =>
        /\ IsOkReply(6, "Rwalk")
        /\ log[7].k = "Tlopen"
        /\ log[7].fid = 2
        /\ log[7].flags = RdOnly
    /\ Len(log) >= 9 =>
        /\ IsOkReply(8, "Rlopen")
        /\ log[9].k = "Treaddir"
        /\ log[9].fid = 2
        /\ log[9].offset = 0

\* the prologue is complete and a file is being read
C8_Witness ==
    /\ Len(log) >= 15
    /\ log[9].k = "Treaddir"
    /\ log[Len(log)].k = "Tread"

\* ------------------------------------------------------------------------
\* C9 (as stated): on every directory fid a non-empty Rreaddir is followed
\* by another Treaddir on that fid; the enumeration ends only on an empty
\* Rreaddir or on an error.  Stated here for a pull with the default chunk
\* size that ended in success against a server that made no fault.
\* ------------------------------------------------------------------------
C9_ReaddirUntilEmpty ==
    (pc = "done" /\ chunk_size = 65536 /\ remFaults = 0 /\ remObeys
     /\ remVersion = V2000L) =>
        \A i \in 2..Len(log) :
            (IsOkReply(i, "Rreaddir") /\ log[i].msg.data # <<>>) =>
                \E j \in (i + 1)..Len(log) :
                    /\ log[j].k = "Treaddir"
                    /\ log[j].fid = log[i - 1].fid

\* ------------------------------------------------------------------------
\* C10 (as stated): a pull that returns success from a correct server has
\* created locally exactly the directories and the files of the remote
\* tree, each file with the content of its source.  Stated here for the
\* default chunk size, a server that made no fault, and every batching.
\* ------------------------------------------------------------------------
C10_PullCopiesTree ==
    (/\ pc = "done"
     /\ chunk_size = 65536
     /\ remFaults = 0
     /\ remVersion = V2000L
     /\ remObeys
     /\ \A i \in 1..Len(remTree) : remTree[i].typ \in {QT_Dir, QT_File})
    => /\ localDirs =
            {remTree[i].path : i \in {j \in 1..Len(remTree) :
                                         remTree[j].typ = QT_Dir}}
       /\ DOMAIN localFiles =
            {remTree[i].path : i \in {j \in 1..Len(remTree) :
                                         remTree[j].typ = QT_File}}
       /\ \A i \in 1..Len(remTree) :
            remTree[i].typ = QT_File =>
                localFiles[remTree[i].path] = remTree[i].data

\* ------------------------------------------------------------------------
\* C11: errors are fatal and never retried: an error result (I/O, decode,
\* ServerError, UnexpectedReturnType) is the last entry of the log, so no
\* request, the failed one included, is written after it; the pull does not
\* end in success, and the step the driver takes on it ends in failure, in
\* run as well as in nested copydir and copyfile calls.
\* ------------------------------------------------------------------------
C11_ErrorsAreFatal ==
    /\ [](\A i \in 1..Len(log) :
            IsErr(log[i]) => (i = Len(log) /\ pc # "done"))
    /\ [][(Len(log) > 0 /\ IsErr(log[Len(log)]) /\ pc' # pc)
            => pc' = "failed"]_vars

\* a Tread inside a nested copydir got an error and the pull has failed
C11_Witness ==
    /\ pc = "failed"
    /\ Len(stack) >= 2
    /\ Len(log) >= 2
    /\ log[Len(log) - 1].k = "Tread"
    /\ log[Len(log)].k \in {"DecodeError", "ServerError"}

\* an entry walk: a Twalk request with a name to walk to
IsEntryWalk(x) == x.k = "Twalk" /\ x.wname # <<>>

\* ------------------------------------------------------------------------
\* C12: the newfid values of the Twalk requests sent for directory entries
\* start at 3, are strictly increasing in send order, and so are pairwise
\* distinct and distinct from the fids 1 and 2 of the prologue, whatever
\* the replies to the walks and opens were.
\* ------------------------------------------------------------------------
C12_FidsNeverReused ==
    \A j \in 1..Len(log) :
        IsEntryWalk(log[j]) =>
            /\ log[j].newfid >= 3
            /\ log[j].newfid \notin {1, 2, log[j].fid}
            /\ (\A i \in 1..(j - 1) : ~IsEntryWalk(log[i]))
                    => log[j].newfid = 3
            /\ \A i \in 1..(j - 1) :
                    IsEntryWalk(log[i]) => log[i].newfid < log[j].newfid

\* three entries were walked to, in a directory and below it, and the
\* last of the walks failed
C12_Witness ==
    /\ pc = "failed"
    /\ Len(log) >= 2
    /\ IsEntryWalk(log[Len(log) - 1])
    /\ log[Len(log) - 1].newfid = 5
    /\ log[Len(log) - 1].fid # 2
    /\ \E i \in 1..Len(log) : IsEntryWalk(log[i]) /\ log[i].newfid = 4

\* ------------------------------------------------------------------------
\* C13 (as stated): every Tread and Treaddir sent has count at most the
\* msize of the server's Rversion minus the 11 bytes of header, also when
\* the server answered a smaller msize than the client proposed.  Stated
\* for the default chunk size, where chunk_size - 11 does not wrap.
\* ------------------------------------------------------------------------
C13_CountWithinMsize ==
    (/\ chunk_size = 65536
     /\ Len(log) >= 2
     /\ IsOkReply(2, "Version"))
    => \A i \in 3..Len(log) :
            log[i].k \in {"Tread", "Treaddir"} =>
                ~ULt32(wrapping_sub(log[2].msg.msize, HEADER_SPACE),
                       log[i].count)

\* ------------------------------------------------------------------------
\* C14 (as stated): when the Rwalk received for a Twalk carries fewer Qids
\* than the Twalk had wnames, no Tlopen, Tread or Treaddir is sent on the
\* newfid of that walk.  Stated for the default chunk size and a server
\* that speaks 9P2000.L.
\* ------------------------------------------------------------------------
C14_ShortRwalkFails ==
    \A i \in 1..(Len(log) - 1) :
        (/\ chunk_size = 65536
         /\ remVersion = V2000L
         /\ log[i].k = "Twalk"
         /\ IsOkReply(i + 1, "Rwalk")
         /\ Len(log[i + 1].msg.wname) < Len(log[i].wname))
        => \A j \in (i + 2)..Len(log) :
                ~(/\ log[j].k \in {"Tlopen", "Tread", "Treaddir"}
                  /\ log[j].fid = log[i].newfid)

\* the socket and the server session behind it
uxChannel == <<uxConn, chC2S, chS2C, chEof, chReady, srvTodo>>

\* ------------------------------------------------------------------------
\* C15: lazy connection.  A send on a client without connection connects
\* and then goes on to transmit; a send on a client with a connection goes
\* on to transmit on that connection, which it leaves as it is; a failed
\* connect makes send return an error with nothing written and the client
\* still disconnected.  So the sends of a client make at most one connect,
\* and exactly one once a send got as far as writing without a connect()
\* call from outside.
\* ------------------------------------------------------------------------
C15_LazyConnect ==
    /\ [][uxSends' = uxSends + 1 =>
            IF uxConn # 0
            THEN /\ uxChannel' = uxChannel
                 /\ uxLazy' = uxLazy
                 /\ uxPhase' = "write"
            ELSE \/ /\ uxConn' # 0
                    /\ uxLazy' = uxLazy + 1
                    /\ uxPhase' = "write"
                    /\ chC2S' = <<>>
                 \/ /\ uxConn' = 0
                    /\ uxLazy' = uxLazy
                    /\ uxPhase' = "done"
                    /\ uxRes' = ResIo
                    /\ uxWrote' = 0
                    /\ chC2S' = chC2S]_vars
    /\ [](uxLazy <= 1)
    /\ []((uxPhase \in {"write", "read"} /\ uxCalls = 0) => uxLazy = 1)
    /\ []((uxPhase \in {"write", "read"}) => uxConn # 0)

\* the second send of a client is writing on the connection the first send
\* made
C15_Witness ==
    /\ uxSends = 2
    /\ uxPhase = "read"
    /\ uxLazy = 1
    /\ uxCalls = 0
    /\ uxConn = 1

\* ------------------------------------------------------------------------
\* C16 (as stated): connect() on a client that is connected leaves the
\* client with the channel it had: no step replaces an existing connection.
\* ------------------------------------------------------------------------
C16_ConnectIdempotent ==
    [][uxConn # 0 => uxConn' = uxConn]_vars

\* ------------------------------------------------------------------------
\* C17 (as stated): each send issues exactly one device read for its reply,
\* and the capacity of that read equals the msize of the Tversion the
\* driver sent, for every configured chunk size.
\* ------------------------------------------------------------------------
C17_OneReadOfMsize ==
    (Len(log) >= 2 /\ ~IsReq(log[Len(log)]) /\ log[Len(log)] # ResIo)
    => /\ devReads = 1
       /\ devCap = log[1].msize

\* ------------------------------------------------------------------------
\* C18: every request written to the transport carries tag 0, in the
\* message the constructor built and in bytes 5..6 of the frame send made
\* of it, over the whole sequence of requests of a pull.
\* ------------------------------------------------------------------------
C18_TagAlwaysZero ==
    /\ \A i \in 1..Len(log) : IsReq(log[i]) => log[i].tag = 0
    /\ req.k # "none" =>
        /\ req.tag = 0
        /\ rd_u16(to_bytes_le(req), 6) = 0

\* a pull that ended in success after requests of all six kinds, the
\* last of them a Tread
C18_Witness ==
    /\ pc = "done"
    /\ {log[i].k : i \in 1..Len(log)} \cap {"Version", "Tattach", "Twalk",
            "Tlopen", "Treaddir", "Tread"} = {"Version", "Tattach", "Twalk",
            "Tlopen", "Treaddir", "Tread"}
    /\ log[Len(log) - 1].k = "Tread"

\* the number of Dirents received on fid in the first n entries of log
RECURSIVE DirentsSeen(_, _)
DirentsSeen(n, fid) ==
    IF n < 2 THEN 0
    ELSE DirentsSeen(n - 1, fid) +
         IF /\ log[n - 1].k = "Treaddir"
            /\ log[n - 1].fid = fid
            /\ IsOkReply(n, "Rreaddir")
         THEN Len(log[n].msg.data)
         ELSE 0

\* ------------------------------------------------------------------------
\* C19: on each directory fid the first Treaddir has offset 0 and every
\* later Treaddir has as offset the number of Dirents that the Rreaddir
\* replies received on that fid so far have carried.  log only grows, so
\* it is stated of the Treaddir written last.
\* ------------------------------------------------------------------------
C19_CursorCountsEntries ==
    (Len(log) >= 1 /\ log[Len(log)].k = "Treaddir") =>
        log[Len(log)].offset = DirentsSeen(Len(log) - 1, log[Len(log)].fid)

\* the third Treaddir on the fid of a directory below the root, after two
\* replies of one entry each
C19_Witness ==
    /\ Len(log) >= 5
    /\ log[Len(log)].k = "Treaddir"
    /\ log[Len(log)].fid >= 3
    /\ log[Len(log)].offset = 2
    /\ log[Len(log) - 2].k = "Treaddir"
    /\ log[Len(log) - 2].fid = log[Len(log)].fid
    /\ log[Len(log) - 2].offset = 1

\* the positions in log of the Treaddirs on fid that were answered by an
\* Rreaddir, before position n
ReaddirsBefore(n, fid) ==
    {i \in 1..(n - 2) : /\ log[i].k = "Treaddir"
                        /\ log[i].fid = fid
                        /\ IsOkReply(i + 1, "Rreaddir")}

\* ------------------------------------------------------------------------
\* C20 (as stated): every Treaddir after the first on a directory fid
\* carries as offset the offset field of the last Dirent of the preceding
\* Rreaddir on that fid.  log only grows, so it is stated of the Treaddir
\* written last.
\* ------------------------------------------------------------------------
C20_CursorIsCookie ==
    (Len(log) >= 3 /\ log[Len(log)].k = "Treaddir") =>
        LET prev == ReaddirsBefore(Len(log), log[Len(log)].fid)
        IN  prev # {} =>
                LET i == CHOOSE i \in prev : \A j \in prev : j <= i
                IN  log[Len(log)].offset =
                        log[i + 1].msg.data[Len(log[i + 1].msg.data)].offset

\* ------------------------------------------------------------------------
\* C21 (as stated): for a Dirent named "." or "..", whatever its Qid.typ
\* and Dirent.typ, no Twalk is sent, no fid is minted and nothing is
\* created locally.  log only grows, so the walk is stated of the request
\* written last, for the default chunk size and a 9P2000.L server.
\* ------------------------------------------------------------------------
C21_DotsNeverPulled ==
    /\ (/\ chunk_size = 65536
        /\ remVersion = V2000L
        /\ Len(log) >= 1
        /\ IsEntryWalk(log[Len(log)])) =>
            ~IsDotName(log[Len(log)].wname[1])
    /\ \A fp \in localDirs \cup DOMAIN localFiles :
            fp # <<>> => ~IsDotName(fp[Len(fp)])

\* the Dir bit (0x80) of the bitset Qid.typ
HasDirBit(typ) == (typ \div QT_Dir) % 2 = 1

\* ------------------------------------------------------------------------
\* C22 (as stated): a Dirent whose Qid.typ has the Dir bit set, alone or
\* together with other bits, is pulled as a directory: a Twalk with its
\* name is sent from the parent fid.  Stated of the first entry of the
\* root, for a pull that has ended against a server that made no fault,
\* lists no dot entries, honours count and speaks 9P2000.L, with the
\* default chunk size.
\* ------------------------------------------------------------------------
C22_DirBitIsDirectory ==
    (/\ pc \in {"done", "failed"}
     /\ chunk_size = 65536
     /\ remFaults = 0
     /\ remObeys
     /\ ~remDots
     /\ remVersion = V2000L
     /\ remTree # <<>>
     /\ HasDirBit(remTree[1].typ))
    => \E j \in 1..Len(log) :
            /\ IsEntryWalk(log[j])
            /\ log[j].fid = 2
            /\ log[j].wname = remTree[1].path

\* the payloads of the Rread replies received on fid in the first n
\* entries of log, concatenated in order
RECURSIVE PayloadSeen(_, _)
PayloadSeen(n, fid) ==
    IF n < 2 THEN <<>>
    ELSE PayloadSeen(n - 1, fid) \o
         IF /\ log[n - 1].k = "Tread"
            /\ log[n - 1].fid = fid
            /\ IsOkReply(n, "Rread")
         THEN log[n].msg.data
         ELSE <<>>

\* ------------------------------------------------------------------------
\* C23: the read loop of a file.  The first Tread on a file fid has offset
\* 0 and each later one the sum of the lengths of the payloads received on
\* that fid; at the head of the loop the local file holds those payloads in
\* order; the loop goes round after a payload that is not empty and is left
\* exactly on an empty Rread, and then the local file still holds the
\* concatenation of all payloads.  log only grows, so the offset is stated
\* of the Tread written last.
\* ------------------------------------------------------------------------
C23_ReadLoop ==
    /\ []((Len(log) >= 1 /\ log[Len(log)].k = "Tread") =>
            log[Len(log)].offset =
                Len(PayloadSeen(Len(log) - 1, log[Len(log)].fid)))
    /\ [](pc = "cf_loop" =>
            /\ localFiles[cfFp] = PayloadSeen(Len(log), cfNewfid)
            /\ cfOffset = Len(localFiles[cfFp]))
    /\ [][pc = "cf_resp" =>
            /\ pc' = "cf_loop" =>
                (IsOkReply(Len(log), "Rread") /\ log[Len(log)].msg.data # <<>>)
            /\ pc' = "cd" =>
                /\ IsOkReply(Len(log), "Rread")
                /\ log[Len(log)].msg.data = <<>>
                /\ localFiles'[cfFp] = PayloadSeen(Len(log), cfNewfid)]_vars

\* a file of three bytes was pulled in two payloads and the pull went on
C23_Witness ==
    /\ pc = "done"
    /\ remBatch = 2
    /\ \E fp \in DOMAIN localFiles : localFiles[fp] = <<1, 2, 3>>
    /\ \E i \in 1..Len(log) : log[i].k = "Tread" /\ log[i].offset = 3

\* log[i] is a request of one of the kinds ks that operates on fid f
IsOn(i, ks, f) == log[i].k \in ks /\ log[i].fid = f

C25_ReplyTagMatches ==
    (engR = "Rread" /\ engRes.k = "Ok") => engRes.msg.tag = 0

\* ------------------------------------------------------------------------
\* C26 (as stated): the bytes handed to the reply decoder are exactly the
\* n bytes the device read returned; when the read returns 0 bytes the
\* decoder gets an empty input and send reports no reply of type Unknown.
\* ------------------------------------------------------------------------
C26_DecoderGetsBytesRead ==
    engR # "none" =>
        /\ engData = engRead
        /\ engRead = <<>> =>
            ~(engRes.k = "UnexpectedReturnType" /\ engRes.got = MT_Unknown)

\* ------------------------------------------------------------------------
\* C27 (as stated): for every chunk size, also below 11, the count of every
\* Treaddir and Tread is chunk_size - 11 computed without underflow: it is
\* never greater than chunk_size, and the computation never aborts the
\* program.  log only grows, so the count is stated of the request written
\* last.
\* ------------------------------------------------------------------------
C27_CountNeverUnderflows ==
    /\ pc # "panicked"
    /\ (Len(log) >= 1 /\ log[Len(log)].k \in {"Tread", "Treaddir"}) =>
            ~ULt32(chunk_size, log[Len(log)].count)

\* ------------------------------------------------------------------------
\* C28: a Dirent that is neither a directory (Qid.typ = Dir or Dirent.typ =
\* DT_DIR) nor a plain file (Qid.typ = File) is skipped without effect: the
\* step of the for loop at such an entry writes no request, leaves the fid
\* counter and the local files and directories as they are, and goes on to
\* the next entry without error.
\* ------------------------------------------------------------------------
C28_OtherEntriesSkipped ==
    [][(/\ pc = "cd"
        /\ Top.data # <<>>
        /\ Head(Top.data).qid.typ \notin {QT_Dir, QT_File}
        /\ Head(Top.data).typ # DT_DIR)
       => /\ pc' = "cd"
          /\ stack' = NextEntry
          /\ UNCHANGED <<nextfid, req, log, outstanding, localDirs,
                         localFiles>>]_vars

\* a pull of a Link and a file has ended: the file was pulled, nothing was
\* asked about the Link
C28_Witness ==
    /\ pc = "done"
    /\ remTree # <<>>
    /\ remTree[1].typ = QT_Link
    /\ DOMAIN localFiles = {<<NameA>>}
    /\ localFiles[<<NameA>>] = <<4>>
    /\ nextfid = 4
    /\ \A i \in 1..Len(log) : IsEntryWalk(log[i]) => log[i].wname = <<NameA>>

\* ------------------------------------------------------------------------
\* C29 (as stated): against a server that exports a finite tree and
\* answers every request with the matching reply, the pull finishes with
\* success after finitely many requests.  So such a pull never ends in
\* failure nor aborts, and the number of its requests is bounded.  Stated
\* for the default chunk size and a server that speaks 9P2000.L.
\* ------------------------------------------------------------------------
C29_PullTerminatesWithSuccess ==
    (chunk_size = 65536 /\ remVersion = V2000L /\ remFaults = 0) =>
        /\ pc \notin {"failed", "panicked"}
        /\ Len(log) <= 200

\* ------------------------------------------------------------------------
\* C30 (as stated): for every message type M that implements Message and
\* has a constructor, the typ the constructor writes is M::message_type(),
\* so read_msg expecting M does not reject a frame built by M's
\* constructor with UnexpectedReturnType.
\* ------------------------------------------------------------------------
C30_ConstructorTypIsMessageType ==
    built.k \in MessageImpls =>
        /\ built.typ = message_type(built.k)
        /\ read_msg(built.k, frame).k # "UnexpectedReturnType"

\* C30 (amended): that holds for every such M but Version, and read_msg
\* expecting M returns the message built.  Version::new writes Tversion,
\* the request, while Version::message_type() is Rversion, the reply: a
\* frame built by Version::new is rejected by read_msg expecting Version
\* with UnexpectedReturnType(Rversion, Tversion).
C30_ConstructorTypButVersion ==
    /\ built.k \in MessageImpls \ {"Version"} =>
        /\ built.typ = message_type(built.k)
        /\ read_msg(built.k, frame) = ResOk(built)
    /\ built.k = "Version" =>
        /\ built.typ = MT_Tversion
        /\ message_type(built.k) = MT_Rversion
        /\ read_msg(built.k, frame) =
                UnexpectedReturnType(MT_Rversion, MT_Tversion)

\* Version::new(V2000L) has been built and serialized as a Tversion frame
C30_Witness ==
    /\ built.k = "Version"
    /\ built.version = V2000L
    /\ frame[5] = MT_Tversion
    /\ Len(frame) = built.size

====
